---- MODULE Spec2Model ----
(***************************************************************************)
(* A model of the random-string HTTP service of src/index.mjs: Express     *)
(* routing over the layer stack (morgan, three GET routes, the 404         *)
(* middleware, the error middleware), the length parsing of GET /:len and  *)
(* the assembly of the plain-text body by generate().  The JSON route of    *)
(* the FastAPI variant, whose code is not part of src, is modelled apart   *)
(* (SpecApi) from its description.                                         *)
(*                                                                         *)
(* Text is modelled as a sequence of one-character strings, so that        *)
(* parsing, concatenation and splitting are computed character by          *)
(* character.                                                              *)
(***************************************************************************)
EXTENDS Integers, Sequences, FiniteSets, TLC

VARIABLES express, server, queue, phase, req, res, sent, genArgs, err,
          apiReq, apiRes

vars == <<express, server, queue, phase, req, res, sent, genArgs, err,
          apiReq, apiRes>>

nodeVars == <<express, server, queue, phase, req, res, sent, genArgs, err>>

apiVars == <<apiReq, apiRes>>

-----------------------------------------------------------------------------
(* Bounds of the model *)

\* requests accepted by the socket and waiting for the event loop
MaxQueue == 1

\* the outcomes of the random source are drawn from 0..MaxEntropy
MaxEntropy == 1

\* magnitudes parsed beyond this are collapsed into one value (a double
\* keeps growing up to Infinity; the program only compares with 0 and 128)
MaxMagnitude == 1000000

\* the length parameters sent to the JSON route are -1..MaxQuery
MaxQuery == 130

\* the instants at which the JSON route is served are 0..MaxClock
MaxClock == 1

-----------------------------------------------------------------------------
(* Characters and fixed texts *)

NL == "\n"

\* the character U+0060, which cannot be written inside a string literal
Backtick == "U+0060"

alphanumeric ==
  <<"A","B","C","D","E","F","G","H","I","J","K","L","M","N","O","P","Q","R",
    "S","T","U","V","W","X","Y","Z","a","b","c","d","e","f","g","h","i","j",
    "k","l","m","n","o","p","q","r","s","t","u","v","w","x","y","z","0","1",
    "2","3","4","5","6","7","8","9">>

distinguishable ==
  <<"C","D","E","H","K","M","P","R","T","U","W","X","Y","0","1","2","4","5",
    "8">>

asciiPrintable ==
  <<"!","\"","#","$","%","&","'","(",")","*","+",",","-",".","/","0","1",
    "2","3","4","5","6","7","8","9",":",";","<","=",">","?","@","A","B","C",
    "D","E","F","G","H","I","J","K","L","M","N","O","P","Q","R","S","T","U",
    "V","W","X","Y","Z","[","\\","]","^","_",Backtick,"a","b","c","d","e","f",
    "g","h","i","j","k","l","m","n","o","p","q","r","s","t","u","v","w","x",
    "y","z","{","|","}","~">>

urlSafe ==
  <<"A","B","C","D","E","F","G","H","I","J","K","L","M","N","O","P","Q","R",
    "S","T","U","V","W","X","Y","Z","a","b","c","d","e","f","g","h","i","j",
    "k","l","m","n","o","p","q","r","s","t","u","v","w","x","y","z","0","1",
    "2","3","4","5","6","7","8","9","-",".","_","~">>

lowercase ==
  <<"a","b","c","d","e","f","g","h","i","j","k","l","m","n","o","p","q","r",
    "s","t","u","v","w","x","y","z">>

HdrRandomStuff ==
  <<"R","a","n","d","o","m"," ","S","t","u","f","f",":">>

HdrEasyToRead ==
  <<"E","a","s","y"," ","t","o"," ","r","e","a","d",":">>

HdrPasswords ==
  <<"P","a","s","s","w","o","r","d","s",":">>

HdrUrlSafe ==
  <<"U","R","L","-","s","a","f","e",":">>

HdrLowerCase ==
  <<"L","o","w","e","r","-","c","a","s","e",":">>

OkBody ==
  <<"o","k">>

NotFoundBody ==
  <<"4","0","4"," ","-"," ","F","i","l","e"," ","n","o","t"," ","f","o","u",
    "n","d">>

ServerErrorBody ==
  <<"5","0","0"," ","-"," ","I","n","t","e","r","n","a","l"," ","s","e","r",
    "v","e","r"," ","e","r","r","o","r">>

SegHealth ==
  <<"a","l","b","-","h","e","a","l","t","h","-","c","h","e","c","k">>

-----------------------------------------------------------------------------
(* Numbers and the decimal parse of the :len parameter *)

Digit == {"0","1","2","3","4","5","6","7","8","9"}

DigitVal(c) ==
  CASE c = "0" -> 0 [] c = "1" -> 1 [] c = "2" -> 2 [] c = "3" -> 3
    [] c = "4" -> 4 [] c = "5" -> 5 [] c = "6" -> 6 [] c = "7" -> 7
    [] c = "8" -> 8 [] c = "9" -> 9

WhiteSpace == {" ", "\t", NL, "\r", "\f"}

Min(a, b) == IF a < b THEN a ELSE b

\* the value of the digits s[i..j], most significant first
RECURSIVE ToNumber(_, _, _)
ToNumber(s, i, j) ==
  IF j < i THEN 0
  ELSE Min(ToNumber(s, i, j - 1) * 10 + DigitVal(s[j]), MaxMagnitude)

NaN == [nan |-> TRUE, val |-> 0]

\* parseInt(string, 10): leading white space is skipped, one sign is allowed,
\* the longest run of digits is read and whatever follows is ignored; no
\* digit at all gives NaN
parseInt(s) ==
  LET n      == Len(s)
      start  == IF \E i \in 1..n : s[i] \notin WhiteSpace
                  THEN CHOOSE i \in 1..n :
                         /\ s[i] \notin WhiteSpace
                         /\ \A k \in 1..(i - 1) : s[k] \in WhiteSpace
                  ELSE n + 1
      signed == start <= n /\ s[start] \in {"+", "-"}
      sign   == IF start <= n /\ s[start] = "-" THEN -1 ELSE 1
      first  == IF signed THEN start + 1 ELSE start
      RunEnds == {j \in (first - 1)..n : \A k \in first..j : s[k] \in Digit}
      last   == CHOOSE j \in RunEnds : \A k \in RunEnds : k <= j
  IN  IF last < first THEN NaN
      ELSE [nan |-> FALSE, val |-> sign * ToNumber(s, first, last)]

\* the cap of GET /:len
MaxLength == 128

\* the default of GET /:len, the right operand of ||
FallbackLength == 32

RootLengthMutant == MaxLength

\* the length of GET /
RootLength == 32

\* const len = parseInt(req.params.len, 10) || 32  (NaN and 0 are falsy)
len(param) ==
  LET p == parseInt(param)
  IN  IF p.nan \/ p.val = 0 THEN FallbackLength ELSE p.val

clampMutant(l) == IF l > MaxLength THEN MaxLength - 1 ELSE l

\* len > 128 ? 128 : len
clamp(l) == IF l > MaxLength THEN MaxLength ELSE l

-----------------------------------------------------------------------------
(* The random strings and the plain-text body *)

Entropy == 0..MaxEntropy

Thrown == [threw |-> TRUE, value |-> <<>>]

\* cryptoRandomString({length, characters}): a TypeError unless length is a
\* non-negative finite number, otherwise length characters of the alphabet,
\* picked by the random source (here the draw e)
cryptoRandomString(length, characters, e) ==
  IF length < 0 THEN Thrown
  ELSE [threw |-> FALSE,
        value |-> [i \in 1..length |->
                     characters[(((e + 1) * i + 3 * e) % Len(characters)) + 1]]]

generateWrongLast(l, e) ==
  LET a == cryptoRandomString(l, alphanumeric, e)
      b == cryptoRandomString(l, distinguishable, e)
      c == cryptoRandomString(l, asciiPrintable, e)
      d == cryptoRandomString(l, urlSafe, e)
      x == cryptoRandomString(l + 1, alphanumeric, e)
  IN  IF a.threw \/ x.threw THEN Thrown
      ELSE [threw |-> FALSE,
            value |-> HdrRandomStuff \o <<NL>> \o a.value \o <<NL, NL>>
                   \o HdrEasyToRead \o <<NL>> \o b.value \o <<NL, NL>>
                   \o HdrPasswords \o <<NL>> \o c.value \o <<NL, NL>>
                   \o HdrUrlSafe \o <<NL>> \o d.value \o <<NL, NL>>
                   \o HdrLowerCase \o <<NL>> \o x.value \o <<NL, NL>>]

generateUnspaced(l, e) ==
  LET a == cryptoRandomString(l, alphanumeric, e)
      b == cryptoRandomString(l, distinguishable, e)
      c == cryptoRandomString(l, asciiPrintable, e)
      d == cryptoRandomString(l, urlSafe, e)
      x == cryptoRandomString(l, lowercase, e)
  IN  IF a.threw THEN Thrown
      ELSE [threw |-> FALSE,
            value |-> HdrRandomStuff \o <<NL>> \o a.value \o <<NL>>
                   \o HdrEasyToRead \o <<NL>> \o b.value \o <<NL>>
                   \o HdrPasswords \o <<NL>> \o c.value \o <<NL>>
                   \o HdrUrlSafe \o <<NL>> \o d.value \o <<NL>>
                   \o HdrLowerCase \o <<NL>> \o x.value \o <<NL>>]

\* generate(l): five strings of length l, one per character set, under
\* their headers; the first call throws when l is rejected
generate(l, e) ==
  LET a == cryptoRandomString(l, alphanumeric, e)
      b == cryptoRandomString(l, distinguishable, e)
      c == cryptoRandomString(l, asciiPrintable, e)
      d == cryptoRandomString(l, urlSafe, e)
      x == cryptoRandomString(l, lowercase, e)
  IN  IF a.threw THEN Thrown
      ELSE [threw |-> FALSE,
            value |-> HdrRandomStuff \o <<NL>> \o a.value \o <<NL, NL>>
                   \o HdrEasyToRead \o <<NL>> \o b.value \o <<NL, NL>>
                   \o HdrPasswords \o <<NL>> \o c.value \o <<NL, NL>>
                   \o HdrUrlSafe \o <<NL>> \o d.value \o <<NL, NL>>
                   \o HdrLowerCase \o <<NL>> \o x.value \o <<NL, NL>>]

-----------------------------------------------------------------------------
(* Requests: a method and the decoded segments of the path *)

Methods == {"GET", "HEAD", "POST"}

\* the values of :len that are sent
Segments ==
  { <<"5">>, <<"0","0","7">>, <<"1","2","8">>, <<"1","2","9">>,
    <<"9","9","9","9","9","9","9","9","9","9","9">>,
    <<"0">>, <<"-","0">>, <<"-","5">>,
    <<"a","b","c">>, <<"1","2","a","b","c">>, <<"5",".","7">>,
    SegHealth }

Paths ==
  {<<>>} \cup {<<s>> : s \in Segments}
         \cup {<< <<"a">>, <<"b">> >>,
               << <<"a","p","i">>, <<"v","1">>, <<"r","a","n","d","o","m">> >>}

\* what HEAD and POST are tried on
ProbePaths == {<<>>, << <<"5">> >>, << <<"a">>, <<"b">> >>}

Requests ==
  {[method |-> "GET", path |-> p] : p \in Paths}
    \cup {[method |-> m, path |-> p] : m \in Methods \ {"GET"}, p \in ProbePaths}

NoRequest == [method |-> "NONE", path |-> <<>>]

NoResponse == [status |-> 0, body |-> <<>>]

-----------------------------------------------------------------------------
(* The layer stack of the application, after morgan *)

\* app.get registers a route for GET; the router also gives it HEAD
HandlesMethod(m) == m \in {"GET", "HEAD"}

matchPathLoose(pattern, path) ==
  CASE pattern = "/" -> path = <<>>
    [] pattern = "/:len" -> Len(path) >= 1
    [] pattern = "/alb-health-check" -> path = <<SegHealth>>
    [] OTHER -> TRUE

\* "/" is the empty path, "/:len" is any single segment, the last route is
\* the literal segment; a middleware mounted without a path takes all
matchPath(pattern, path) ==
  CASE pattern = "/" -> path = <<>>
    [] pattern = "/:len" -> Len(path) = 1
    [] pattern = "/alb-health-check" -> path = <<SegHealth>>
    [] OTHER -> TRUE

Stack ==
  << [route |-> TRUE,  pattern |-> "/"],
     [route |-> TRUE,  pattern |-> "/:len"],
     [route |-> TRUE,  pattern |-> "/alb-health-check"],
     [route |-> FALSE, pattern |-> "*"] >>

Matches(i, r) ==
  /\ matchPath(Stack[i].pattern, r.path)
  /\ Stack[i].route => HandlesMethod(r.method)

\* the first layer of the stack that takes the request
MatchLayer(r) ==
  CHOOSE i \in 1..Len(Stack) :
    /\ Matches(i, r)
    /\ \A k \in 1..(i - 1) : ~Matches(k, r)

\* res.status(s).send(b); a HEAD request gets the status without the body
Send(r, s, b) == [status |-> s, body |-> IF r.method = "HEAD" THEN <<>> ELSE b]

\* what the two handlers without generation send: line 32 and line 36
StaticResponse(i) ==
  IF i = 3 THEN [status |-> 200, body |-> OkBody]
           ELSE [status |-> 404, body |-> NotFoundBody]

-----------------------------------------------------------------------------
(* The state machine *)

Init ==
  /\ express \in {4, 5}
  /\ server = "listening"
  /\ queue = <<>>
  /\ phase = "idle"
  /\ req = NoRequest
  /\ res = NoResponse
  /\ sent = 0
  /\ genArgs = {}
  /\ err = "none"
  /\ apiReq = [sent |-> FALSE, given |-> FALSE, length |-> 0]
  /\ apiRes = [status |-> 0]

\* a request arrives on the listening socket
Receive(r) ==
  /\ server = "listening"
  /\ Len(queue) < MaxQueue
  /\ queue' = Append(queue, r)
  /\ UNCHANGED <<express, server, phase, req, res, sent, genArgs, err>>
  /\ UNCHANGED apiVars

\* the event loop takes the next request; morgan passes it on to the router
Dispatch ==
  /\ server = "listening"
  /\ phase \in {"idle", "done"}
  /\ queue # <<>>
  /\ req' = Head(queue)
  /\ queue' = Tail(queue)
  /\ phase' = "routing"
  /\ res' = NoResponse
  /\ sent' = 0
  /\ genArgs' = {}
  /\ err' = "none"
  /\ UNCHANGED <<express, server>>
  /\ UNCHANGED apiVars

\* the outcome of a handler that called generate(l)
Generated(l, e) ==
  LET g == generate(l, e)
  IN  /\ genArgs' = {l}
      /\ IF g.threw
           THEN /\ phase' = "rejected"
                /\ err' = "TypeError"
                /\ res' = res
                /\ sent' = sent
           ELSE /\ phase' = "done"
                /\ err' = err
                /\ res' = Send(req, 200, g.value)
                /\ sent' = sent + 1

\* app.get("/")
GetRoot ==
  /\ server = "listening"
  /\ phase = "routing"
  /\ MatchLayer(req) = 1
  /\ \E e \in Entropy : Generated(RootLength, e)
  /\ UNCHANGED <<express, server, queue, req>>
  /\ UNCHANGED apiVars

\* app.get("/:len")
GetLen ==
  /\ server = "listening"
  /\ phase = "routing"
  /\ MatchLayer(req) = 2
  /\ \E e \in Entropy : Generated(clamp(len(req.path[1])), e)
  /\ UNCHANGED <<express, server, queue, req>>
  /\ UNCHANGED apiVars

\* app.get("/alb-health-check") and the 404 middleware
SendStatic ==
  /\ server = "listening"
  /\ phase = "routing"
  /\ MatchLayer(req) \in {3, 4}
  /\ LET s == StaticResponse(MatchLayer(req))
     IN  res' = Send(req, s.status, s.body)
  /\ sent' = sent + 1
  /\ phase' = "done"
  /\ UNCHANGED <<express, server, queue, req, genArgs, err>>
  /\ UNCHANGED apiVars

\* Express 5 passes the rejection of an async handler to next(err), which
\* reaches the error middleware
ErrorMiddleware ==
  /\ server = "listening"
  /\ phase = "rejected"
  /\ express = 5
  /\ res' = Send(req, 500, ServerErrorBody)
  /\ sent' = sent + 1
  /\ phase' = "done"
  /\ UNCHANGED <<express, server, queue, req, genArgs, err>>
  /\ UNCHANGED apiVars

\* Express 4 drops the promise of the handler: the rejection is unhandled,
\* nothing is sent and the runtime ends the process
UnhandledRejection ==
  /\ server = "listening"
  /\ phase = "rejected"
  /\ express = 4
  /\ server' = "crashed"
  /\ phase' = "hung"
  /\ UNCHANGED <<express, queue, req, res, sent, genArgs, err>>
  /\ UNCHANGED apiVars

Next ==
  \/ \E r \in Requests : Receive(r)
  \/ Dispatch
  \/ GetRoot
  \/ GetLen
  \/ SendStatic
  \/ ErrorMiddleware
  \/ UnhandledRejection

Spec == Init /\ [][Next]_vars

-----------------------------------------------------------------------------
(* The JSON route GET /api/v1/random?length=<n> of the FastAPI variant *)

\* default 32
ApiDefaultLength == 32

\* clamped to [1,128]
ApiMaxLength == 128

\* the length parameters that are sent; one request comes without it
ApiQueries ==
  {[given |-> FALSE, length |-> 0]}
    \cup {[given |-> TRUE, length |-> n] : n \in (0 - 1)..MaxQuery}

Labels == {"alphanumeric", "distinguishable", "password", "urlsafe", "lowercase"}

Without(seq, cs) == SelectSeq(seq, LAMBDA c : c \notin cs)

\* the five character-set policies
PolicyAlphabet(label) ==
  CASE label = "alphanumeric" -> alphanumeric
    [] label = "distinguishable" -> Without(alphanumeric, {"0","O","1","l","I"})
    [] label = "password" -> asciiPrintable
    [] label = "urlsafe" -> alphanumeric \o <<"-", "_">>
    [] label = "lowercase" -> lowercase

\* a missing or non-positive length is the default, one above 128 is 128
NormalizeLength(q) ==
  IF ~q.given \/ q.length <= 0 THEN ApiDefaultLength
  ELSE IF q.length > ApiMaxLength THEN ApiMaxLength
  ELSE q.length

GenerateStringShort(n, label, e) ==
  LET chars == PolicyAlphabet(label)
  IN  [i \in 1..(n - 1) |-> chars[(((e + 1) * i + 3 * e) % Len(chars)) + 1]]

\* generate(length, policy): length characters of the policy's alphabet
GenerateString(n, label, e) ==
  LET chars == PolicyAlphabet(label)
  IN  [i \in 1..n |-> chars[(((e + 1) * i + 3 * e) % Len(chars)) + 1]]

\* the request reaches the JSON route
ApiReceive(q) ==
  /\ apiRes.status = 0
  /\ ~apiReq.sent
  /\ apiReq' = [sent |-> TRUE, given |-> q.given, length |-> q.length]
  /\ UNCHANGED apiRes
  /\ UNCHANGED nodeVars

\* the JSON object with length, strings and generated_at
ApiRandom ==
  /\ apiReq.sent
  /\ apiRes.status = 0
  /\ \E e \in Entropy, t \in 0..MaxClock :
       LET n == NormalizeLength(apiReq)
       IN  apiRes' = [status |-> 200,
                      json |-> [length |-> n,
                                strings |-> [l \in Labels |-> GenerateString(n, l, e)],
                                generated_at |-> t]]
  /\ UNCHANGED apiReq
  /\ UNCHANGED nodeVars

NextApi ==
  \/ \E q \in ApiQueries : ApiReceive(q)
  \/ ApiRandom

SpecApi == Init /\ [][NextApi]_vars

-----------------------------------------------------------------------------
(* Reading a response *)

\* the request has left the router: answered, failed, or left unanswered
Processed == phase \in {"rejected", "done", "hung"}

Answered == phase = "done"

GetSegment == req.method = "GET" /\ Len(req.path) = 1

IsDigits(seg) == Len(seg) >= 1 /\ \A i \in 1..Len(seg) : seg[i] \in Digit

\* the number a digits-only segment denotes
Decimal(seg) == ToNumber(seg, 1, Len(seg))

\* a digits-only segment, or one preceded by a minus sign
IsInteger(seg) ==
  \/ IsDigits(seg)
  \/ Len(seg) >= 2 /\ seg[1] = "-" /\ IsDigits(Tail(seg))

IntegerOf(seg) == IF seg[1] = "-" THEN 0 - Decimal(Tail(seg)) ELSE Decimal(seg)

\* the position of the first newline of s at or after i, Len(s) + 1 if none
RECURSIVE NextNL(_, _)
NextNL(s, i) == IF i > Len(s) \/ s[i] = NL THEN i ELSE NextNL(s, i + 1)

\* the lines of a text: the pieces between its newlines
RECURSIVE LinesFrom(_, _)
LinesFrom(s, i) ==
  LET j == NextNL(s, i)
  IN  IF j > Len(s) THEN <<SubSeq(s, i, Len(s))>>
      ELSE <<SubSeq(s, i, j - 1)>> \o LinesFrom(s, j + 1)

Lines(s) == LinesFrom(s, 1)

Headers ==
  <<HdrRandomStuff, HdrEasyToRead, HdrPasswords, HdrUrlSafe, HdrLowerCase>>

Alphabets == <<alphanumeric, distinguishable, asciiPrintable, urlSafe, lowercase>>

Chars(seq) == {seq[i] : i \in 1..Len(seq)}

\* the lines L are five sections: header k on line 3k-2, its string on line
\* 3k-1, an empty line after it, and the empty piece after the last newline
Sections(L) ==
  /\ Len(L) = 16
  /\ \A k \in 1..5 :
       /\ L[3 * k - 2] = Headers[k]
       /\ Chars(L[3 * k - 1]) \subseteq Chars(Alphabets[k])
       /\ L[3 * k] = <<>>
  /\ L[16] = <<>>

\* the string of section k
StringOf(L, k) == L[3 * k - 1]

\* a generation result whose five strings have n characters each
ResultOfLength(n) ==
  /\ Answered
  /\ res.status = 200
  /\ LET L == Lines(res.body)
     IN  /\ Sections(L)
         /\ \A k \in 1..5 : Len(StringOf(L, k)) = n

-----------------------------------------------------------------------------
(* The claims *)

C2_ClampedTo128 ==
  (Processed /\ GetSegment /\ IsDigits(req.path[1])
     /\ Decimal(req.path[1]) > MaxLength)
    => /\ ResultOfLength(128)
       /\ genArgs # {}
       /\ \A l \in genArgs : l <= 128

C2_Witness ==
  /\ Answered
  /\ req = [method |-> "GET",
            path |-> << <<"9","9","9","9","9","9","9","9","9","9","9">> >>]
  /\ genArgs = {128}

\* C3 (as claimed): for GET /<n> with n an integer that is zero or negative,
\* the response is a generation result with five strings of 32 characters,
\* no error is raised and generate is not called with a length below 1.
C3_NonPositiveGivesDefault ==
  (Processed /\ GetSegment /\ IsInteger(req.path[1])
     /\ IntegerOf(req.path[1]) <= 0)
    => /\ ResultOfLength(32)
       /\ err = "none"
       /\ \A l \in genArgs : l >= 1

\* C4 (as claimed): for GET /<segment> with a segment that is not made of
\* digits only, the length falls back to the default: the five strings that
\* are returned have 32 characters each.
C4_NonDigitsGiveDefault ==
  (Answered /\ res.status = 200 /\ GetSegment /\ ~IsDigits(req.path[1]))
    => /\ genArgs = {32}
       /\ ResultOfLength(32)

\* C5 (as claimed): GET /alb-health-check is answered with a success status
\* and the body "ok", with no generated strings.
C5_HealthCheckIsOk ==
  (Processed /\ req = [method |-> "GET", path |-> <<SegHealth>>])
    => /\ Answered
       /\ res = [status |-> 200, body |-> OkBody]
       /\ genArgs = {}

\* C6: GET / is answered with the generation result of the default length:
\* five strings of 32 characters each.
C6_RootGivesDefault ==
  (Processed /\ req = [method |-> "GET", path |-> <<>>])
    => ResultOfLength(32)

C6_Witness ==
  /\ Answered
  /\ req = [method |-> "GET", path |-> <<>>]
  /\ genArgs = {32}

\* C7 (as claimed): a request with more than one path segment, or with a
\* method other than GET, is answered with status 404 and the body
\* "404 - File not found", never with a generation result.
C7_UnmatchedIs404 ==
  (Processed /\ (Len(req.path) > 1 \/ req.method # "GET"))
    => /\ Answered
       /\ res = [status |-> 404, body |-> NotFoundBody]
       /\ genArgs = {}

\* C7 (amended): a request with more than one path segment, or with a method
\* other than GET and HEAD, is answered with status 404 and no generation;
\* its body is "404 - File not found", which a HEAD response leaves out.
C7_UnroutedIs404 ==
  (Processed /\ (Len(req.path) > 1 \/ req.method \notin {"GET", "HEAD"}))
    => /\ Answered
       /\ res.status = 404
       /\ res.body = IF req.method = "HEAD" THEN <<>> ELSE NotFoundBody
       /\ genArgs = {}

C7_Witness ==
  /\ Answered
  /\ req = [method |-> "GET", path |-> << <<"a">>, <<"b">> >>]
  /\ res.status = 404

\* C8 (as claimed): when a route handler throws, the error middleware
\* answers with status 500 and the body "500 - Internal server error", and
\* the server goes on listening.
C8_ThrowGives500 ==
  err # "none"
    => /\ server = "listening"
       /\ \/ phase = "rejected"
          \/ Answered /\ res = [status |-> 500, body |-> ServerErrorBody]

\* C9: the body of a generation response is five sections in the order
\* alphanumeric, distinguishable, password, url-safe, lowercase: each is its
\* header line, then the string on the next line, then one empty line,
\* whatever the length.
C9_FiveSectionsInOrder ==
  (Answered /\ req.method = "GET" /\ genArgs # {} /\ res.status = 200)
    => LET L == Lines(res.body)
       IN  /\ Sections(L)
           /\ \A k \in 1..5 : \A l \in genArgs : Len(StringOf(L, k)) = l

C9_Witness ==
  /\ Answered
  /\ req = [method |-> "GET", path |-> << <<"5">> >>]
  /\ Lines(res.body)[10] = HdrUrlSafe
  /\ Len(Lines(res.body)[11]) = 5

OwnLength(r) ==
  CASE MatchLayer(r) = 1 -> RootLength
    [] MatchLayer(r) = 2 -> clamp(len(r.path[1]))
    [] OTHER -> 0

OwnStatus(r) ==
  CASE MatchLayer(r) \in {1, 2} -> IF OwnLength(r) < 0 THEN 500 ELSE 200
    [] OTHER -> StaticResponse(MatchLayer(r)).status

\* C11 (as claimed): requests are handled independently: the status and the
\* string lengths of a response follow from the method and the path of its
\* own request, and the handling of one request, also one that fails, does
\* not change what a request that is still waiting gets.
C11_RequestsIndependent ==
  /\ Answered => res.status = OwnStatus(req)
  /\ (Answered /\ req.method = "GET" /\ res.status = 200 /\ genArgs # {})
       => ResultOfLength(OwnLength(req))
  /\ queue # <<>> => server = "listening"

\* C12 (as claimed): every request is answered with exactly one response:
\* once its handling has ended, one handler has sent a response, never none
\* and never more than one.
C12_ExactlyOneResponse ==
  /\ sent <= 1
  /\ phase \in {"done", "hung"} => sent = 1

====
